---- MODULE Spec2Model ----
(***************************************************************************)
(* Model of package system (src/system/utils.go): the interpreter          *)
(* locators, the three shell-sourcing functions and ExecuteCommands.       *)
(*                                                                         *)
(* A Go string is a sequence of one-character strings.  The symbol "X"     *)
(* stands for a run of RunLen bytes "x", so that a line can reach the      *)
(* token limit of bufio.Scanner without a 64 KiB sequence.                 *)
(***************************************************************************)
EXTENDS Integers, Sequences, FiniteSets, TLC

VARIABLES environ, calls, last, dump, parsed, snapUnix, snapBatch, snapPowerShell, searchPath

vars == <<environ, calls, last, dump, parsed, snapUnix, snapBatch, snapPowerShell, searchPath>>

(* ------------------------------ bounds --------------------------------- *)
MaxLen == 6
MaxDumpLen == 2
MaxCalls == 2
MaxCmds == 3
NumDirs == 2
RunLen == 65535

(* --------------------------- Go strings -------------------------------- *)
Nil == "nil"
LF == "\n"
CR == "\r"
EQ == "="
Run == "X"

Chars == {"a", "b", EQ, LF, CR, Run}
DumpChars == {"a", "b", EQ, LF}

\* the strings of at most n characters of the alphabet
StringsUpTo(alphabet, n) == UNION {[1..k -> alphabet] : k \in 0..n}

\* len(s) in bytes
RECURSIVE ByteLen(_)
ByteLen(s) ==
  IF s = <<>> THEN 0
  ELSE (IF Head(s) = Run THEN RunLen ELSE 1) + ByteLen(Tail(s))

\* strings.Index(s, c) + 1; 0 when c does not occur in s
Index(s, c) ==
  IF \E i \in 1..Len(s) : s[i] = c
  THEN CHOOSE i \in 1..Len(s) : s[i] = c /\ \A j \in 1..(i - 1) : s[j] # c
  ELSE 0

\* strings.Split(s, sep) for a one-character separator
RECURSIVE Split(_, _)
Split(s, sep) ==
  LET i == Index(s, sep)
  IN  IF i = 0 THEN <<s>>
      ELSE <<SubSeq(s, 1, i - 1)>> \o Split(SubSeq(s, i + 1, Len(s)), sep)

\* strings.SplitN(line, "=", 2)
SplitN2(line) ==
  LET i == Index(line, EQ)
  IN  IF i = 0 THEN <<line>>
      ELSE <<SubSeq(line, 1, i - 1), SubSeq(line, i + 1, Len(line))>>

(* ------------------------------ maps ----------------------------------- *)
EmptyMap == [k \in {} |-> <<>>]

\* m[k] = v on a Go map
Put(m, k, v) == [x \in (DOMAIN m) \cup {k} |-> IF x = k THEN v ELSE m[x]]

\* the loop  parts := strings.SplitN(line, "=", 2); if len(parts) == 2 { env[parts[0]] = parts[1] }
RECURSIVE BuildEnv(_, _)
BuildEnv(lines, env) ==
  IF lines = <<>> THEN env
  ELSE LET parts == SplitN2(Head(lines))
       IN  BuildEnv(Tail(lines),
             IF Len(parts) = 2 THEN Put(env, parts[1], parts[2]) ELSE env)

(* ------------------------- bufio.Scanner ------------------------------- *)
\* bufio.MaxScanTokenSize, the buffer limit of bufio.NewScanner
MaxScanTokenSize == 65536

\* dropCR of bufio.ScanLines
DropCR(line) ==
  IF Len(line) > 0 /\ line[Len(line)] = CR THEN SubSeq(line, 1, Len(line) - 1) ELSE line

\* The tokens scanner.Text() yields while scanner.Scan() is true: the lines
\* of data without their terminator and one trailing "\r"; an empty final
\* line is no token.  Scan() is false, with ErrTooLong, at the first line
\* that does not fit the buffer, and the caller's loop ends there.
RECURSIVE ScanTokens(_)
ScanTokens(data) ==
  IF data = <<>> THEN <<>>
  ELSE LET i == Index(data, LF)
           line == IF i = 0 THEN data ELSE SubSeq(data, 1, i - 1)
           rest == IF i = 0 THEN <<>> ELSE SubSeq(data, i + 1, Len(data))
       IN  IF ByteLen(line) >= MaxScanTokenSize THEN <<>>
           ELSE <<DropCR(line)>> \o ScanTokens(rest)

(* --------------------------- the parsers ------------------------------- *)
\* ShellSourceUnix: env built from strings.Split(string(output), "\n")
ParseUnix(output) == BuildEnv(Split(output, LF), EmptyMap)

\* ShellSourceBatch: env built from the scanner's lines
ParseBatch(output) == BuildEnv(ScanTokens(output), EmptyMap)

\* ShellSourcePowerShell: the same loop as ShellSourceBatch
ParsePowerShell(output) == BuildEnv(ScanTokens(output), EmptyMap)

(* ---------------------- the process environment ------------------------ *)
\* os.Setenv(key, value): syscall.Setenv rejects an empty key and a key with
\* "=" (EINVAL) and leaves the environment alone; the callers drop the error.
\* (It rejects a NUL byte too; the alphabet has none.)  Names are compared
\* byte for byte, as on POSIX hosts.
Setenv(env, key, value) ==
  IF key = <<>> \/ \E i \in 1..Len(key) : key[i] = EQ THEN env
  ELSE Put(env, key, value)

\* for key, value := range env { os.Setenv(key, value) }
RECURSIVE SetenvAll(_, _, _)
SetenvAll(env, snap, keys) ==
  IF keys = {} THEN env
  ELSE LET k == CHOOSE x \in keys : TRUE
       IN  SetenvAll(Setenv(env, k, snap[k]), snap, keys \ {k})

\* os.Clearenv() before the loop: the environment becomes the dump
ApplyEnvReplacing(env, snap) == SetenvAll(EmptyMap, snap, DOMAIN snap)

ApplyEnv(env, snap) == SetenvAll(env, snap, DOMAIN snap)

(* ------------------------ the subprocess ------------------------------- *)
\* What cmd.Output() / cmd.Run() can give: the process error (Nil when the
\* child exited 0) and the bytes captured from its standard output.
SpawnErr == "executable file not found in $PATH"
ExitErr == "exit status 1"
IOErr == "read |0: file already closed"

Dumps == StringsUpTo(DumpChars, MaxDumpLen)

\* what a failing child had written before it failed
PartialDumps == {<<>>, <<"a", EQ, "b">>, <<"b", EQ>>}

ProcOutcomes ==
  {[err |-> Nil, out |-> t] : t \in Dumps}
    \cup {[err |-> SpawnErr, out |-> <<>>]}
    \cup {[err |-> e, out |-> t] : e \in {ExitErr, IOErr}, t \in PartialDumps}

(* ------------------------ the sourcing calls --------------------------- *)
\* The error check moved below the loop: the captured output is applied
\* before the process error is looked at.
SourceResultApplyFirst(prefix, proc, snap, env) ==
  IF proc.err # Nil
  THEN [err |-> prefix \o proc.err, env |-> ApplyEnv(env, snap), snap |-> snap]
  ELSE [err |-> Nil, env |-> ApplyEnv(env, snap), snap |-> snap]

\* The body shared by the three functions: return on a process error, else
\* apply the parsed env map and return nil.
SourceResult(prefix, proc, snap, env) ==
  IF proc.err # Nil
  THEN [err |-> prefix \o proc.err, env |-> env, snap |-> EmptyMap]
  ELSE [err |-> Nil, env |-> ApplyEnv(env, snap), snap |-> snap]

ShellSourceUnix(proc, env) ==
  SourceResult("Failed to execute shell script: ", proc, ParseUnix(proc.out), env)

ShellSourceBatch(proc, env) ==
  SourceResult("Failed to execute .bat file: ", proc, ParseBatch(proc.out), env)

ShellSourcePowerShell(proc, env) ==
  SourceResult("Failed to execute .ps1 file: ", proc, ParsePowerShell(proc.out), env)

(* ------------------------------ state ---------------------------------- *)
NoCall == [op |-> "none"]

InitEnvs ==
  { EmptyMap,
    [k \in {<<"a">>} |-> <<"b">>],
    [k \in {<<"a">>, <<"b">>} |-> <<"a">>] }

Init ==
  /\ environ \in InitEnvs
  /\ calls = 0
  /\ last = NoCall
  /\ dump = <<>>
  /\ parsed = {}
  /\ snapUnix = EmptyMap
  /\ snapBatch = EmptyMap
  /\ snapPowerShell = EmptyMap
  /\ searchPath = <<>>

Sourced(op, proc, r) ==
  /\ environ' = r.env
  /\ last' = [op |-> op, err |-> r.err, cause |-> proc.err, out |-> proc.out,
              snap |-> r.snap, before |-> environ]
  /\ calls' = calls + 1
  /\ UNCHANGED <<dump, parsed, snapUnix, snapBatch, snapPowerShell, searchPath>>

CallShellSourceUnix ==
  /\ calls < MaxCalls
  /\ \E proc \in ProcOutcomes : Sourced("ShellSourceUnix", proc, ShellSourceUnix(proc, environ))

CallShellSourceBatch ==
  /\ calls < MaxCalls
  /\ \E proc \in ProcOutcomes : Sourced("ShellSourceBatch", proc, ShellSourceBatch(proc, environ))

CallShellSourcePowerShell ==
  /\ calls < MaxCalls
  /\ \E proc \in ProcOutcomes :
       Sourced("ShellSourcePowerShell", proc, ShellSourcePowerShell(proc, environ))

Next == CallShellSourceUnix \/ CallShellSourceBatch \/ CallShellSourcePowerShell

Spec == Init /\ [][Next]_vars

SourceOps == {"ShellSourceUnix", "ShellSourceBatch", "ShellSourcePowerShell"}

ErrPrefixes ==
  {"Failed to execute shell script: ", "Failed to execute .bat file: ", "Failed to execute .ps1 file: "}

(* ---------------- properties: sourcing ---------------- *)
\* C1: after a sourcing call that returned nil, every key of the snapshot
\* parsed from the captured dump is set in the process environment to the
\* snapshot's value, whatever it was before the call.
C1_SnapshotApplied ==
  (last.op \in SourceOps /\ last.err = Nil) =>
    \A k \in DOMAIN last.snap : k \in DOMAIN environ /\ environ[k] = last.snap[k]

\* C2: a sourcing call neither removes nor changes a variable that was set
\* before the call and is no key of the parsed snapshot, at every call of a
\* sequence of calls.
C2_AbsentKeysKept ==
  last.op \in SourceOps =>
    \A k \in DOMAIN last.before :
      k \notin DOMAIN last.snap => (k \in DOMAIN environ /\ environ[k] = last.before[k])

\* a second call that applied a non-empty snapshot while another variable was set
C2_Witness ==
  /\ calls = 2
  /\ last.op \in SourceOps
  /\ last.err = Nil
  /\ last.snap # EmptyMap
  /\ \E k \in DOMAIN last.before : k \notin DOMAIN last.snap
  /\ environ # last.before

Texts == StringsUpTo(Chars, MaxLen)

InitParse ==
  /\ dump \in Texts
  /\ parsed = {}
  /\ snapUnix = EmptyMap
  /\ snapBatch = EmptyMap
  /\ snapPowerShell = EmptyMap
  /\ environ = EmptyMap
  /\ calls = 0
  /\ last = NoCall
  /\ searchPath = <<>>

\* lines 93-100 on the captured output
DoParseUnix ==
  /\ "ShellSourceUnix" \notin parsed
  /\ snapUnix' = ParseUnix(dump)
  /\ parsed' = parsed \cup {"ShellSourceUnix"}
  /\ UNCHANGED <<environ, calls, last, dump, snapBatch, snapPowerShell, searchPath>>

\* lines 132-140 on the captured output
DoParseBatch ==
  /\ "ShellSourceBatch" \notin parsed
  /\ snapBatch' = ParseBatch(dump)
  /\ parsed' = parsed \cup {"ShellSourceBatch"}
  /\ UNCHANGED <<environ, calls, last, dump, snapUnix, snapPowerShell, searchPath>>

\* lines 171-179 on the captured output
DoParsePowerShell ==
  /\ "ShellSourcePowerShell" \notin parsed
  /\ snapPowerShell' = ParsePowerShell(dump)
  /\ parsed' = parsed \cup {"ShellSourcePowerShell"}
  /\ UNCHANGED <<environ, calls, last, dump, snapUnix, snapBatch, searchPath>>

NextParse == DoParseUnix \/ DoParseBatch \/ DoParsePowerShell

SpecParse == InitParse /\ [][NextParse]_vars

(* ---------------- properties: parsing ---------------- *)
\* The lines of the dump as each dialect's text reader delimits them: "\n"
\* ends a line, and the line scanner takes "\r\n" as a terminator too.
HasEq(line) == Index(line, EQ) # 0
KeyOf(line) == SplitN2(line)[1]
ValueOf(line) == SplitN2(line)[2]
UnixLines == Split(dump, LF)
ScannerLines == [i \in 1..Len(UnixLines) |-> DropCR(UnixLines[i])]

LastWriteWins(lines, snap) ==
  \A i \in 1..Len(lines) :
    (HasEq(lines[i])
       /\ KeyOf(lines[i]) # <<>>
       /\ \E j \in 1..Len(lines) : j # i /\ HasEq(lines[j]) /\ KeyOf(lines[j]) = KeyOf(lines[i])
       /\ \A n \in (i + 1)..Len(lines) : HasEq(lines[n]) => KeyOf(lines[n]) # KeyOf(lines[i]))
    => (KeyOf(lines[i]) \in DOMAIN snap /\ snap[KeyOf(lines[i])] = ValueOf(lines[i]))

\* C4: when several lines of the dump start with the same KEY followed by
\* "=", the snapshot's value for KEY is the value of the last of them.
C4_LastWriteWins ==
  /\ "ShellSourceUnix" \in parsed => LastWriteWins(UnixLines, snapUnix)
  /\ "ShellSourceBatch" \in parsed => LastWriteWins(ScannerLines, snapBatch)
  /\ "ShellSourcePowerShell" \in parsed => LastWriteWins(ScannerLines, snapPowerShell)

SkipsLinesWithoutEq(lines, snap) ==
  /\ \A k \in DOMAIN snap : \E j \in 1..Len(lines) : HasEq(lines[j]) /\ KeyOf(lines[j]) = k
  /\ \A i \in 1..Len(lines) :
       ~HasEq(lines[i]) =>
         \A j \in (i + 1)..Len(lines) :
           (HasEq(lines[j]) /\ KeyOf(lines[j]) # <<>>) => KeyOf(lines[j]) \in DOMAIN snap

\* C5: a line without "=" adds no key to the snapshot, and every valid
\* NAME=VALUE line after it is still parsed into the snapshot.
C5_MalformedLinesSkipped ==
  /\ "ShellSourceUnix" \in parsed => SkipsLinesWithoutEq(UnixLines, snapUnix)
  /\ "ShellSourceBatch" \in parsed => SkipsLinesWithoutEq(ScannerLines, snapBatch)
  /\ "ShellSourcePowerShell" \in parsed => SkipsLinesWithoutEq(ScannerLines, snapPowerShell)

WellFormedKeys(snap) ==
  \A k \in DOMAIN snap : k # <<>> /\ \A i \in 1..Len(k) : k[i] # EQ

\* C6: every key of a parsed snapshot is non-empty and holds no "=".
C6_KeysNonEmptyNoEq ==
  /\ "ShellSourceUnix" \in parsed => WellFormedKeys(snapUnix)
  /\ "ShellSourceBatch" \in parsed => WellFormedKeys(snapBatch)
  /\ "ShellSourcePowerShell" \in parsed => WellFormedKeys(snapPowerShell)

\* C10: the three dialects build the same snapshot from the same dump text.
C10_DialectsParseAlike ==
  parsed = SourceOps => (snapUnix = snapBatch /\ snapBatch = snapPowerShell)

(* -------------------------- ExecuteCommands ---------------------------- *)
SP == " "

\* command strings: an empty one, a bare name, a name with one argument
CommandStrings == {<<>>, <<"a">>, <<"b">>, <<"a", SP, "b">>}
WorkDirs == {"", "/work"}
NoCommandErr == "exec: no command"
RunErrs == {ExitErr, SpawnErr}

\* exec.Command(cmdName, args...) with cmd.Dir = dir, as built at lines 199-208
CommandOf(command, dir) ==
  LET parts == Split(command, SP)
  IN  [command |-> command,
       cmdName |-> parts[1],
       args |-> IF Len(parts) > 1 THEN Tail(parts) ELSE <<>>,
       dir |-> dir]

\* what cmd.Run() returns for each command of the list, were it run:
\* a command with an empty name never starts
RunResults(commands) ==
  {r \in [1..Len(commands) -> RunErrs \cup {Nil, NoCommandErr}] :
     \A i \in 1..Len(commands) :
       r[i] = NoCommandErr <=> CommandOf(commands[i], "").cmdName = <<>>}

\* The loop without its early return: every command is run and the last
\* error is returned.
RECURSIVE RunLoopKeepGoing(_, _, _, _, _, _)
RunLoopKeepGoing(commands, dir, results, i, spawned, err) ==
  IF i > Len(commands) THEN [err |-> err, spawned |-> spawned]
  ELSE RunLoopKeepGoing(commands, dir, results, i + 1,
         Append(spawned, CommandOf(commands[i], dir)),
         IF results[i] # Nil THEN results[i] ELSE err)

\* the loop of lines 198-213 from index i on
RECURSIVE RunLoop(_, _, _, _, _, _)
RunLoop(commands, dir, results, i, spawned, err) ==
  IF i > Len(commands) THEN [err |-> Nil, spawned |-> spawned]
  ELSE LET ran == Append(spawned, CommandOf(commands[i], dir))
       IN  IF results[i] # Nil THEN [err |-> results[i], spawned |-> ran]
           ELSE RunLoop(commands, dir, results, i + 1, ran, err)

\* every command is run whatever the earlier ones returned
ExecuteCommandsKeepGoing(commands, dir, results) ==
  IF Len(commands) = 0 THEN [err |-> Nil, spawned |-> <<>>]
  ELSE RunLoopKeepGoing(commands, dir, results, 1, <<>>, Nil)

ExecuteCommands(commands, dir, results) ==
  IF Len(commands) = 0 THEN [err |-> Nil, spawned |-> <<>>]
  ELSE RunLoop(commands, dir, results, 1, <<>>, Nil)

ListsUpTo(elems, n) == UNION {[1..k -> elems] : k \in 0..n}

CommandLists == ListsUpTo(CommandStrings, MaxCmds)

\* Before the call: the list, the directory, and what each run would give.
InitExec ==
  /\ \E c \in CommandLists, d \in WorkDirs :
       \E r \in RunResults(c) :
         last = [op |-> "pending", commands |-> c, dir |-> d, results |-> r]
  /\ environ = EmptyMap
  /\ calls = 0
  /\ dump = <<>>
  /\ parsed = {}
  /\ snapUnix = EmptyMap
  /\ snapBatch = EmptyMap
  /\ snapPowerShell = EmptyMap
  /\ searchPath = <<>>

CallExecuteCommands ==
  /\ last.op = "pending"
  /\ LET r == ExecuteCommands(last.commands, last.dir, last.results)
     IN  last' = [op |-> "ExecuteCommands", commands |-> last.commands, dir |-> last.dir,
                  results |-> last.results, spawned |-> r.spawned, err |-> r.err]
  /\ UNCHANGED <<environ, calls, dump, parsed, snapUnix, snapBatch, snapPowerShell, searchPath>>

NextExec == CallExecuteCommands

SpecExec == InitExec /\ [][NextExec]_vars

(* ---------------- properties: ExecuteCommands ---------------- *)
Failing(results) == {i \in DOMAIN results : results[i] # Nil}
FirstFailing(results) == CHOOSE i \in Failing(results) : \A j \in Failing(results) : i <= j

C8_DuplicatesRemoved ==
  last.op = "ExecuteCommands" =>
    \A i, j \in 1..Len(last.spawned) :
      i # j => last.spawned[i].command # last.spawned[j].command

(* ----------------------- interpreter locators -------------------------- *)
Executables == {"python3", "python", "pip3", "pip", "node"}
Dirs == <<"/usr/local/bin", "/usr/bin", "/bin", "/opt/bin">>

\* exec.LookPath(file): the file in the first directory of the search path
\* that holds an executable of that name, or an error
LookPath(path, file) ==
  IF \E i \in 1..Len(path) : file \in path[i]
  THEN LET i == CHOOSE x \in 1..Len(path) :
                  file \in path[x] /\ \A y \in 1..(x - 1) : file \notin path[y]
       IN  [path |-> Dirs[i] \o "/" \o file, err |-> Nil]
  ELSE [path |-> "", err |-> "executable file not found in $PATH"]

\* the two lookups in the other order
FindPythonLegacyFirst(path) ==
  IF LookPath(path, "python").err = Nil
  THEN [path |-> LookPath(path, "python").path, err |-> Nil]
  ELSE IF LookPath(path, "python3").err = Nil
  THEN [path |-> LookPath(path, "python3").path, err |-> Nil]
  ELSE [path |-> "", err |-> "python interpreter not found"]

FindPython(path) ==
  IF LookPath(path, "python3").err = Nil
  THEN [path |-> LookPath(path, "python3").path, err |-> Nil]
  ELSE IF LookPath(path, "python").err = Nil
  THEN [path |-> LookPath(path, "python").path, err |-> Nil]
  ELSE [path |-> "", err |-> "python interpreter not found"]

FindNode(path) ==
  IF LookPath(path, "node").err # Nil
  THEN [path |-> "", err |-> "node.js interpreter not found"]
  ELSE [path |-> LookPath(path, "node").path, err |-> Nil]

FindPip(path) ==
  IF LookPath(path, "pip3").err = Nil
  THEN [path |-> LookPath(path, "pip3").path, err |-> Nil]
  ELSE IF LookPath(path, "pip").err = Nil
  THEN [path |-> LookPath(path, "pip").path, err |-> Nil]
  ELSE [path |-> "", err |-> "pip command not found"]

InitFind ==
  /\ searchPath \in [1..NumDirs -> SUBSET Executables]
  /\ environ \in InitEnvs
  /\ calls = 0
  /\ last = NoCall
  /\ dump = <<>>
  /\ parsed = {}
  /\ snapUnix = EmptyMap
  /\ snapBatch = EmptyMap
  /\ snapPowerShell = EmptyMap

Found(op, r) ==
  /\ last' = [op |-> op, path |-> r.path, err |-> r.err, before |-> environ]
  /\ UNCHANGED <<environ, calls, dump, parsed, snapUnix, snapBatch, snapPowerShell, searchPath>>

CallFindPython == Found("FindPython", FindPython(searchPath))

CallFindNode == Found("FindNode", FindNode(searchPath))

CallFindPip == Found("FindPip", FindPip(searchPath))

NextFind == CallFindPython \/ CallFindNode \/ CallFindPip

SpecFind == InitFind /\ [][NextFind]_vars

(* ---------------- properties: locators ---------------- *)
OnPath(file) == \E i \in 1..NumDirs : file \in searchPath[i]

\* p is file in the first directory of the search path holding it
FirstMatch(p, file) ==
  \E i \in 1..NumDirs :
    /\ file \in searchPath[i]
    /\ \A j \in 1..(i - 1) : file \notin searchPath[j]
    /\ p = Dirs[i] \o "/" \o file

Fallback(preferred, legacy) ==
  /\ OnPath(preferred) => (last.err = Nil /\ FirstMatch(last.path, preferred))
  /\ (~OnPath(preferred) /\ OnPath(legacy)) => (last.err = Nil /\ FirstMatch(last.path, legacy))
  /\ (~OnPath(preferred) /\ ~OnPath(legacy)) => (last.err # Nil /\ last.path = "")

\* C9: FindPython and FindPip return the first candidate found on the search
\* path, the preferred name before the legacy one, an empty path and an
\* error when neither is there, and leave the process environment alone.
C9_OrderedFallback ==
  /\ last.op = "FindPython" => (Fallback("python3", "python") /\ environ = last.before)
  /\ last.op = "FindPip" => (Fallback("pip3", "pip") /\ environ = last.before)

\* python3 sits in a later directory than python and still wins
C9_Witness ==
  /\ last.op = "FindPython"
  /\ "python" \in searchPath[1]
  /\ "python3" \notin searchPath[1]
  /\ "python3" \in searchPath[2]
  /\ last.path = Dirs[2] \o "/" \o "python3"

====
